---- MODULE Spec2Model ----
(***************************************************************************)
(* Model of app/public/src/game/lobby-logic.ts: joinLobbyRoom (the lobby   *)
(* session, "connect()") and joinExistingPreparationRoom (the lobby ->     *)
(* preparation hand-off).  Every await of the source is one position of a  *)
(* process; the synchronous code between two awaits is one action.  Each   *)
(* process keeps the ordered list of the calls it made on its              *)
(* collaborators (transport, credential store, sink, navigation).          *)
(***************************************************************************)
EXTENDS Integers, Sequences, FiniteSets, TLC

\* ---------------------------------------------------------------- bounds
MaxCalls == 2          \* joinLobbyRoom calls
MaxTransitions == 2    \* joinExistingPreparationRoom calls
MaxHandoffs == 1       \* of which SpecTransition runs this many
MaxInstances == 3      \* tournaments, players and brackets the server ever adds to a room.state

\* ------------------------------------------------------ program constants
LobbyTTL == 300        \* 60 * 5 seconds
PrepTTL == 30          \* seconds

\* ------------------------------------------------------------- universes
CallIds == 1..MaxCalls
TransIds == 1..MaxTransitions
NoRoom == 0
\* the Room object created by call c / by transition t
LobbyRoomOf(c) == c
PrepRoomOf(t) == MaxCalls + t
RoomIds == 1..(MaxCalls + MaxTransitions)
\* room.reconnectionToken; NoToken is the falsy value of line 69
NoToken == 0
TokenOf(r) == r
\* a token left in the store by an earlier page load
OldToken == MaxCalls + MaxTransitions + 1

\* keys of room.state.tournaments, tournament.players and tournament.brackets
TournamentIds == 1..MaxInstances
PlayerIds == 1..MaxInstances
BracketIds == 1..MaxInstances

RECONNECTION_LOBBY == "reconnection_lobby"
RECONNECTION_PREPARATION == "reconnection_preparation"
LocalStoreKeys == {RECONNECTION_LOBBY, RECONNECTION_PREPARATION}
\* a stored credential; ttl is the time left until it expires, negative once expired
NoCred == [reconnectionToken |-> NoToken, roomId |-> "", ttl |-> 0]
Expired == 0 - 1

\* CloseCodes named by room.onLeave, and one the handler does not name
ForcedCodes == {"USER_INACTIVE", "USER_BANNED", "USER_DELETED", "USER_NOT_AUTHENTICATED"}
CloseCodes == ForcedCodes \cup {"ABNORMAL_CLOSURE"}
\* the codes that have an entry in CloseCodesMessages
CloseCodesMessages == ForcedCodes

\* a thrown value: whether it has a .message, and its .code ("" when it has none)
Errors == [message : BOOLEAN, code : {"", "USER_BANNED", "UNKNOWN"}]
\* new Error(`Expected to join a preparation room ...`), line 313
UnexpectedRoomError == [message |-> TRUE, code |-> ""]
PlainError == [message |-> TRUE, code |-> ""]

VARIABLES
  localStore,   \* key -> stored credential (NoCred when absent)
  rooms,        \* Room objects: name, roomId, connection.isOpen, listeners attached
  network,      \* NetworkStore: lobby handle, connectionStatus, errorAlertMessage
  pathname,     \* window.location.pathname
  calls,        \* joinLobbyRoom invocations
  trans,        \* joinExistingPreparationRoom invocations
  sink,         \* LobbyStore: the tournaments it holds, and the updates last dispatched
  schema        \* room.state of each lobby room: the tournaments delivered so far (their
                \* players and brackets), whether each is still in its collection, and
                \* the listeners attached to it

vars == <<localStore, rooms, network, pathname, calls, trans, sink, schema>>

\* one call on a collaborator: what was called, on which room or token, with which TTL
Ev(e, a) == [ev |-> e, arg |-> a, ttl |-> 0]
EvSet(e, a, ttl) == [ev |-> e, arg |-> a, ttl |-> ttl]

\* queries on a process's list of calls
HasEv(log, e) == \E i \in 1..Len(log) : log[i].ev = e
HasEvOn(log, e, a) == \E i \in 1..Len(log) : log[i].ev = e /\ log[i].arg = a
\* every e1 comes before every e2, and there is at least one e1
Pos(log, e) == {i \in 1..Len(log) : log[i].ev = e}
Count(log, e) == Cardinality(Pos(log, e))
AllBefore(log, e1, e2) ==
  /\ Pos(log, e1) # {}
  /\ \A i \in Pos(log, e1), j \in Pos(log, e2) : i < j

\* one dispatch to the store: the action creator and the ids and field of its payload
Upd(type, tournamentId, childId, field) ==
  [type |-> type, tournamentId |-> tournamentId, childId |-> childId, field |-> field]

\* LobbyStore before any update
EmptySink == [tournaments |-> {}, added |-> {}, last |-> <<>>]

NoRoomRec == [name |-> "", roomId |-> "", isOpen |-> FALSE, listeners |-> FALSE]
IdleCall == [pc |-> "idle", promise |-> "none", lobby |-> NoRoom, reconnectToken |-> NoToken,
             room |-> NoRoom, overlapped |-> {}, log |-> <<>>]
IdleTrans == [pc |-> "idle", roomId |-> "", lobby |-> NoRoom, via |-> NoRoom, room |-> NoRoom,
              roomOpen |-> FALSE, started |-> {}, settled |-> {}, log |-> <<>>]

\* ------------------------------------------------------ credential store
\* localStore.set(key, value, ttlSeconds)
StoreSet(store, key, token, roomId, ttl) ==
  [store EXCEPT ![key] = [reconnectionToken |-> token, roomId |-> roomId, ttl |-> ttl]]

\* localStore.delete(key)
StoreDelete(store, key) == [store EXCEPT ![key] = NoCred]

\* localStore.get(key): a credential older than its TTL is not returned
StoreGet(store, key) ==
  IF store[key] = NoCred \/ store[key].ttl < 0 THEN NoCred ELSE store[key]

Init ==
  /\ localStore \in
       { [k \in LocalStoreKeys |-> IF k = RECONNECTION_LOBBY THEN c ELSE NoCred] :
           c \in { NoCred,
                   [reconnectionToken |-> OldToken, roomId |-> "lobby1", ttl |-> LobbyTTL],
                   [reconnectionToken |-> OldToken, roomId |-> "lobby1", ttl |-> Expired] } }
  /\ rooms = [r \in RoomIds |-> NoRoomRec]
  /\ network = [lobby |-> NoRoom, connectionStatus |-> "DISCONNECTED", errorAlertMessage |-> ""]
  /\ pathname = "/lobby"
  /\ calls = [c \in CallIds |-> IdleCall]
  /\ trans = [t \in TransIds |-> IdleTrans]
  /\ sink = EmptySink
  /\ schema = [r \in RoomIds |-> <<>>]

\* ------------------------------------------------------------ the clock
\* more than the longest TTL passes: every stored credential is now expired
Tick ==
  /\ \E k \in LocalStoreKeys : localStore[k] # NoCred /\ localStore[k].ttl >= 0
  /\ localStore' = [k \in LocalStoreKeys |->
                      IF localStore[k] = NoCred THEN NoCred
                      ELSE [localStore[k] EXCEPT !.ttl = Expired]]
  /\ UNCHANGED <<rooms, network, pathname, calls, trans, sink, schema>>

\* ------------------------------------------------ joinLobbyRoom (connect)
\* joinLobbyRoom without the early return of lines 57-60
joinLobbyRoomAlwaysConnects(c) ==
  /\ calls[c].pc = "idle"
  /\ \A d \in CallIds : d < c => calls[d].pc # "idle"
  /\ LET pending == {d \in CallIds : calls[d].pc \notin {"idle", "done"}}
     IN  calls' = [calls EXCEPT ![c] =
           [@ EXCEPT !.pc = "authenticating", !.promise = "pending", !.lobby = network.lobby,
                     !.overlapped = pending, !.log = <<Ev("authenticateUser", 0)>>]]
  /\ UNCHANGED <<localStore, rooms, network, pathname, trans, sink, schema>>

\* lines 53-62: read the published handle, return it when open, else authenticate
joinLobbyRoom(c) ==
  /\ calls[c].pc = "idle"
  /\ \A d \in CallIds : d < c => calls[d].pc # "idle"
  /\ LET lobby == network.lobby
         pending == {d \in CallIds : calls[d].pc \notin {"idle", "done"}}
     IN  calls' = [calls EXCEPT ![c] =
           IF lobby # NoRoom /\ rooms[lobby].isOpen
           THEN [@ EXCEPT !.pc = "done", !.promise = "resolved", !.lobby = lobby,
                          !.room = lobby, !.log = <<Ev("resolve", lobby)>>]
           ELSE [@ EXCEPT !.pc = "authenticating", !.promise = "pending", !.lobby = lobby,
                          !.overlapped = pending, !.log = <<Ev("authenticateUser", 0)>>]]
  /\ UNCHANGED <<localStore, rooms, network, pathname, trans, sink, schema>>

\* AuthResolved reading the stored token without the store's expiry check
AuthResolvedRawRead(c) ==
  /\ calls[c].pc = "authenticating"
  /\ LET reconnectToken == localStore[RECONNECTION_LOBBY].reconnectionToken
     IN  calls' = [calls EXCEPT ![c] =
           IF reconnectToken # NoToken
           THEN [@ EXCEPT !.pc = "reconnecting", !.reconnectToken = reconnectToken,
                          !.log = @ \o <<Ev("localStore.get", reconnectToken),
                                         Ev("client.reconnect", reconnectToken)>>]
           ELSE [@ EXCEPT !.pc = "gettingIdToken",
                          !.log = @ \o <<Ev("localStore.get", NoToken),
                                         Ev("user.getIdToken", 0)>>]]
  /\ UNCHANGED <<localStore, rooms, network, pathname, trans, sink, schema>>

\* lines 62-76: authenticateUser() resolved; read the stored credential and
\* reconnect with it when there is one, else go on to the fresh join (78-80)
AuthResolved(c) ==
  /\ calls[c].pc = "authenticating"
  /\ LET reconnectToken == StoreGet(localStore, RECONNECTION_LOBBY).reconnectionToken
     IN  calls' = [calls EXCEPT ![c] =
           IF reconnectToken # NoToken
           THEN [@ EXCEPT !.pc = "reconnecting", !.reconnectToken = reconnectToken,
                          !.log = @ \o <<Ev("localStore.get", reconnectToken),
                                         Ev("client.reconnect", reconnectToken)>>]
           ELSE [@ EXCEPT !.pc = "gettingIdToken",
                          !.log = @ \o <<Ev("localStore.get", NoToken),
                                         Ev("user.getIdToken", 0)>>]]
  /\ UNCHANGED <<localStore, rooms, network, pathname, trans, sink, schema>>

\* line 62: authenticateUser() rejected; .then() has no rejection handler, so
\* neither resolve nor reject of the returned promise is ever called
AuthRejected(c) ==
  /\ calls[c].pc = "authenticating"
  /\ calls' = [calls EXCEPT ![c].pc = "done", ![c].log = @ \o <<Ev("authenticateUser.rejected", 0)>>]
  /\ UNCHANGED <<localStore, rooms, network, pathname, trans, sink, schema>>

\* lines 279-281 and 286-292: reject(error), then the promise's catch handler
RejectLog(err) ==
  <<Ev("reject", 0)>>
    \o (IF err.message THEN <<Ev("setErrorAlertMessage", 0)>> ELSE <<>>)
    \o <<Ev("navigate:/", 0)>>

RejectNetwork(net, err) ==
  IF err.message THEN [net EXCEPT !.errorAlertMessage = "err.message"] ELSE net

\* lines 85-278 on a joined room r, in source order
InitializeLog(r) ==
  << Ev("setConnectionStatus:CONNECTED", r),
     EvSet("localStore.set:lobby", TokenOf(r), LobbyTTL),
     Ev("room.onLeave", r),
     Ev("stateListeners", r),
     Ev("room.onMessage", r),
     Ev("joinLobby", r),
     Ev("resolve", r) >>

\* lines 85-93 when getStateCallbacks (93-94) throws err
InitializeThrowsLog(r, err) ==
  << Ev("setConnectionStatus:CONNECTED", r),
     EvSet("localStore.set:lobby", TokenOf(r), LobbyTTL) >> \o RejectLog(err)

\* Initialize with joinLobby dispatched before the listeners are set up
InitializePublishFirst(c, throws, err) ==
  LET r == LobbyRoomOf(c) IN
  /\ rooms' = [rooms EXCEPT ![r] = [name |-> "lobby", roomId |-> "lobby1", isOpen |-> TRUE,
                                    listeners |-> ~throws]]
  /\ localStore' = StoreSet(localStore, RECONNECTION_LOBBY, TokenOf(r), "lobby1", LobbyTTL)
  /\ network' = IF throws
                THEN RejectNetwork([network EXCEPT !.connectionStatus = "CONNECTED", !.lobby = r], err)
                ELSE [network EXCEPT !.connectionStatus = "CONNECTED", !.lobby = r]
  /\ pathname' = IF throws THEN "/" ELSE pathname
  /\ calls' = [calls EXCEPT ![c] =
        [@ EXCEPT !.pc = "done",
                  !.promise = IF throws THEN "rejected" ELSE "resolved",
                  !.room = r,
                  !.log = @ \o (IF throws THEN InitializeThrowsLog(r, err) ELSE InitializeLog(r))]]
  /\ UNCHANGED <<trans, sink, schema>>

\* lines 85-281: the room of call c has just been obtained (reconnect or join)
Initialize(c, throws, err) ==
  LET r == LobbyRoomOf(c) IN
  /\ rooms' = [rooms EXCEPT ![r] = [name |-> "lobby", roomId |-> "lobby1", isOpen |-> TRUE,
                                    listeners |-> ~throws]]
  /\ localStore' = StoreSet(localStore, RECONNECTION_LOBBY, TokenOf(r), "lobby1", LobbyTTL)
  /\ network' = IF throws
                THEN RejectNetwork([network EXCEPT !.connectionStatus = "CONNECTED"], err)
                ELSE [network EXCEPT !.connectionStatus = "CONNECTED", !.lobby = r]
  /\ pathname' = IF throws THEN "/" ELSE pathname
  /\ calls' = [calls EXCEPT ![c] =
        [@ EXCEPT !.pc = "done",
                  !.promise = IF throws THEN "rejected" ELSE "resolved",
                  !.room = r,
                  !.log = @ \o (IF throws THEN InitializeThrowsLog(r, err) ELSE InitializeLog(r))]]
  /\ UNCHANGED <<trans, sink, schema>>

\* line 72 resolved: room is set, line 78 skips the fresh join
ReconnectResolved(c) ==
  /\ calls[c].pc = "reconnecting"
  /\ \E throws \in BOOLEAN : Initialize(c, throws, PlainError)

\* ReconnectRejected with the catch block of lines 73-75 left empty
ReconnectRejectedKeepsCredential(c) ==
  /\ calls[c].pc = "reconnecting"
  /\ calls' = [calls EXCEPT ![c].pc = "gettingIdToken",
                            ![c].log = @ \o <<Ev("client.reconnect.rejected", calls[c].reconnectToken),
                                              Ev("user.getIdToken", 0)>>]
  /\ UNCHANGED <<localStore, rooms, network, pathname, trans, sink, schema>>

\* lines 73-80: reconnect threw; delete the credential, then fresh join
ReconnectRejected(c) ==
  /\ calls[c].pc = "reconnecting"
  /\ localStore' = StoreDelete(localStore, RECONNECTION_LOBBY)
  /\ calls' = [calls EXCEPT ![c].pc = "gettingIdToken",
                            ![c].log = @ \o <<Ev("client.reconnect.rejected", calls[c].reconnectToken),
                                              Ev("localStore.delete:lobby", 0),
                                              Ev("user.getIdToken", 0)>>]
  /\ UNCHANGED <<rooms, network, pathname, trans, sink, schema>>

\* lines 80-81: the id token arrived, client.join("lobby") is issued
IdTokenResolved(c) ==
  /\ calls[c].pc = "gettingIdToken"
  /\ calls' = [calls EXCEPT ![c].pc = "joining", ![c].log = @ \o <<Ev("client.join", 0)>>]
  /\ UNCHANGED <<localStore, rooms, network, pathname, trans, sink, schema>>

\* an await inside the try block threw err: lines 279-281, 286-292
Reject(c, what, err) ==
  /\ calls' = [calls EXCEPT ![c].pc = "done", ![c].promise = "rejected",
                            ![c].log = @ \o <<Ev(what, 0)>> \o RejectLog(err)]
  /\ network' = RejectNetwork(network, err)
  /\ pathname' = "/"
  /\ UNCHANGED <<localStore, rooms, trans, sink, schema>>

\* line 80 threw
IdTokenRejected(c) ==
  /\ calls[c].pc = "gettingIdToken"
  /\ \E err \in Errors : Reject(c, "user.getIdToken.rejected", err)

\* line 81 resolved
JoinResolved(c) ==
  /\ calls[c].pc = "joining"
  /\ \E throws \in BOOLEAN : Initialize(c, throws, PlainError)

\* JoinRejected treating the failed join like the failed reconnect of lines 73-75
JoinRejectedClearsCredential(c) ==
  /\ calls[c].pc = "joining"
  /\ localStore' = StoreDelete(localStore, RECONNECTION_LOBBY)
  /\ \E err \in Errors :
       /\ calls' = [calls EXCEPT ![c].pc = "done", ![c].promise = "rejected",
                                 ![c].log = @ \o <<Ev("client.join.rejected", 0)>> \o RejectLog(err)]
       /\ network' = RejectNetwork(network, err)
       /\ pathname' = "/"
  /\ UNCHANGED <<rooms, trans, sink, schema>>

\* line 81 threw
JoinRejected(c) ==
  /\ calls[c].pc = "joining"
  /\ \E err \in Errors : Reject(c, "client.join.rejected", err)

\* ------------------------------------------------- the lobby room closes
\* OnLeave without the window.location.pathname test of line 99
OnLeaveAnyView(r, code) ==
  /\ network' = IF rooms[r].listeners /\ code \in ForcedCodes /\ code \in CloseCodesMessages
                THEN [network EXCEPT !.errorAlertMessage = "errors." \o code] ELSE network
  /\ pathname' = IF rooms[r].listeners /\ code \in ForcedCodes THEN "/" ELSE pathname

\* lines 96-111: room.onLeave(code), registered on rooms that were initialized
OnLeave(r, code) ==
  LET shouldGoToLoginPage == pathname = "/lobby" /\ code \in ForcedCodes IN
  /\ network' = IF rooms[r].listeners /\ shouldGoToLoginPage /\ code \in CloseCodesMessages
                THEN [network EXCEPT !.errorAlertMessage = "errors." \o code] ELSE network
  /\ pathname' = IF rooms[r].listeners /\ shouldGoToLoginPage THEN "/" ELSE pathname

\* the server (or the network) closes an open lobby connection with a close code
ServerCloseWith(r, code) ==
  /\ rooms[r].name = "lobby"
  /\ rooms[r].isOpen
  /\ rooms' = [rooms EXCEPT ![r].isOpen = FALSE]
  /\ OnLeave(r, code)
  /\ UNCHANGED <<localStore, calls, trans, sink, schema>>

ServerClose(r) == \E code \in CloseCodes : ServerCloseWith(r, code)

\* ------------------------- joinExistingPreparationRoom (room transition)
\* lines 297-305: the call starts and awaits currentUser?.getIdToken()
joinExistingPreparationRoom(t, roomId, lobby, via) ==
  /\ trans[t].pc = "idle"
  /\ \A u \in TransIds : u < t => trans[u].pc # "idle"
  /\ trans' = [trans EXCEPT ![t] = [@ EXCEPT !.pc = "authenticating", !.roomId = roomId,
                                             !.lobby = lobby, !.via = via,
                                             !.log = <<Ev("getIdToken", 0)>>]]
  /\ UNCHANGED <<localStore, rooms, network, pathname, calls, sink, schema>>

\* OnRequestRoom awaiting the transitions started earlier before it starts its own
OnRequestRoomSerialized(r, t) ==
  /\ rooms[r].listeners /\ rooms[r].isOpen
  /\ \A u \in TransIds : trans[u].pc \notin {"authenticating", "joining", "leaving"}
  /\ \E c \in CallIds :
       /\ LobbyRoomOf(c) = r
       /\ joinExistingPreparationRoom(t, "prep42", calls[c].lobby, r)

\* lines 230-238: REQUEST_ROOM arrives on the lobby room r that call c initialized;
\* the handler passes the `lobby` that call read at line 56
OnRequestRoom(r, t) ==
  /\ rooms[r].listeners /\ rooms[r].isOpen
  /\ \E c \in CallIds :
       /\ LobbyRoomOf(c) = r
       /\ joinExistingPreparationRoom(t, "prep42", calls[c].lobby, r)

\* another caller of the exported function, passing the published lobby handle
CallJoinExistingPreparationRoom(t) ==
  /\ network.lobby # NoRoom
  /\ joinExistingPreparationRoom(t, "prep42", network.lobby, NoRoom)

\* lines 332-338: the catch block
CatchLog(err) ==
  IF err.code # "" /\ err.code \in CloseCodesMessages
  THEN <<Ev("setErrorAlertMessage", 0)>> ELSE <<Ev("logger.error", 0)>>

CatchNetwork(net, err) ==
  IF err.code # "" /\ err.code \in CloseCodesMessages
  THEN [net EXCEPT !.errorAlertMessage = "errors." \o err.code] ELSE net

\* TokenResolved with resetPreparation left to the success path
TokenResolvedNoReset(t) ==
  /\ trans[t].pc = "authenticating"
  /\ \E token \in BOOLEAN :
       trans' = [trans EXCEPT ![t] =
         IF token
         THEN [@ EXCEPT !.pc = "joining", !.log = @ \o <<Ev("client.joinById", 0)>>]
         ELSE [@ EXCEPT !.pc = "done"]]
  /\ UNCHANGED <<localStore, rooms, network, pathname, calls, sink, schema>>

\* TokenResolved with resetPreparation (307) dispatched before the `if (token)` of 306
TokenResolvedResetsFirst(t) ==
  /\ trans[t].pc = "authenticating"
  /\ \E token \in BOOLEAN :
       trans' = [trans EXCEPT ![t] =
         IF token
         THEN [@ EXCEPT !.pc = "joining",
                        !.log = @ \o <<Ev("resetPreparation", 0), Ev("client.joinById", 0)>>]
         ELSE [@ EXCEPT !.pc = "done", !.log = @ \o <<Ev("resetPreparation", 0)>>]]
  /\ UNCHANGED <<localStore, rooms, network, pathname, calls, sink, schema>>

\* lines 305-310: the token arrived (or there is no current user)
TokenResolved(t) ==
  /\ trans[t].pc = "authenticating"
  /\ \E token \in BOOLEAN :
       trans' = [trans EXCEPT ![t] =
         IF token
         THEN [@ EXCEPT !.pc = "joining",
                        !.log = @ \o <<Ev("resetPreparation", 0), Ev("client.joinById", 0)>>]
         ELSE [@ EXCEPT !.pc = "done"]]
  /\ UNCHANGED <<localStore, rooms, network, pathname, calls, sink, schema>>

\* Catch handling the error as the catch of joinLobbyRoom does (lines 286-292)
CatchNavigates(t, what, err) ==
  /\ trans' = [trans EXCEPT ![t].pc = "error",
                            ![t].log = @ \o <<Ev(what, 0)>> \o CatchLog(err) \o <<Ev("navigate:/", 0)>>]
  /\ network' = IF err.message THEN [network EXCEPT !.errorAlertMessage = "err.message"] ELSE network
  /\ pathname' = "/"
  /\ UNCHANGED <<localStore, rooms, calls, sink, schema>>

\* an await inside the try block threw err
Catch(t, what, err) ==
  /\ trans' = [trans EXCEPT ![t].pc = "error", ![t].log = @ \o <<Ev(what, 0)>> \o CatchLog(err)]
  /\ network' = CatchNetwork(network, err)
  /\ UNCHANGED <<localStore, rooms, pathname, calls, sink, schema>>

\* line 305 threw
TokenRejected(t) ==
  /\ trans[t].pc = "authenticating"
  /\ \E err \in Errors : Catch(t, "getIdToken.rejected", err)

\* line 308 threw
JoinByIdRejected(t) ==
  /\ trans[t].pc = "joining"
  /\ \E err \in Errors : Catch(t, "client.joinById.rejected", err)

\* LeaveTargets releasing the lobby only
LeaveTargetsLobbyOnly(lobby, lobbyOpen, room, roomOpen) ==
  IF lobby # NoRoom /\ lobbyOpen THEN <<lobby>> ELSE <<>>

\* lines 325-328: the leaves started by the transition, in array order
LeaveTargets(lobby, lobbyOpen, room, roomOpen) ==
  (IF lobby # NoRoom /\ lobbyOpen THEN <<lobby>> ELSE <<>>)
    \o (IF roomOpen THEN <<room>> ELSE <<>>)

SeqRange(s) == {s[i] : i \in 1..Len(s)}
LeaveLog(targets) == [i \in 1..Len(targets) |-> Ev("leave", targets[i])]

\* WrongRoom with the credential persisted before the room name is checked
WrongRoomPersists(t, r, name, open) ==
  /\ rooms' = [rooms EXCEPT ![r] = [name |-> name, roomId |-> trans[t].roomId, isOpen |-> open,
                                    listeners |-> FALSE]]
  /\ localStore' = StoreSet(localStore, RECONNECTION_PREPARATION, TokenOf(r), trans[t].roomId, PrepTTL)
  /\ trans' = [trans EXCEPT ![t] =
        [@ EXCEPT !.pc = "error", !.room = r, !.roomOpen = open,
                  !.started = IF open THEN {r} ELSE {},
                  !.log = @ \o <<Ev("joined:" \o name, r),
                                 EvSet("localStore.set:preparation", TokenOf(r), PrepTTL)>>
                            \o (IF open THEN <<Ev("leave", r)>> ELSE <<>>)
                            \o <<Ev("throw", 0)>> \o CatchLog(UnexpectedRoomError)]]
  /\ network' = CatchNetwork(network, UnexpectedRoomError)
  /\ UNCHANGED <<pathname, calls, sink, schema>>

\* lines 311-316: the joined room is not a preparation room
WrongRoom(t, r, name, open) ==
  /\ rooms' = [rooms EXCEPT ![r] = [name |-> name, roomId |-> trans[t].roomId, isOpen |-> open,
                                    listeners |-> FALSE]]
  /\ trans' = [trans EXCEPT ![t] =
        [@ EXCEPT !.pc = "error", !.room = r, !.roomOpen = open,
                  !.started = IF open THEN {r} ELSE {},
                  !.log = @ \o <<Ev("joined:" \o name, r)>>
                            \o (IF open THEN <<Ev("leave", r)>> ELSE <<>>)
                            \o <<Ev("throw", 0)>> \o CatchLog(UnexpectedRoomError)]]
  /\ network' = CatchNetwork(network, UnexpectedRoomError)
  /\ UNCHANGED <<localStore, pathname, calls, sink, schema>>

\* lines 317-328: persist the preparation credential, start the leaves, await them
PersistAndLeave(t, r, open) ==
  LET lobby == trans[t].lobby
      targets == LeaveTargets(lobby, lobby # NoRoom /\ rooms[lobby].isOpen, r, open)
  IN
  /\ rooms' = [rooms EXCEPT ![r] = [name |-> "preparation", roomId |-> trans[t].roomId,
                                    isOpen |-> open, listeners |-> FALSE]]
  /\ localStore' = StoreSet(localStore, RECONNECTION_PREPARATION, TokenOf(r), trans[t].roomId, PrepTTL)
  /\ trans' = [trans EXCEPT ![t] =
        [@ EXCEPT !.pc = "leaving", !.room = r, !.roomOpen = open, !.started = SeqRange(targets),
                  !.log = @ \o <<Ev("joined:preparation", r),
                                 EvSet("localStore.set:preparation", TokenOf(r), PrepTTL)>>
                            \o LeaveLog(targets)]]
  /\ UNCHANGED <<network, pathname, calls, sink, schema>>

\* line 308 resolved with a room of the given name
JoinByIdResolved(t) ==
  /\ trans[t].pc = "joining"
  /\ \E name \in {"preparation", "game"}, open \in BOOLEAN :
       IF name # "preparation"
       THEN WrongRoom(t, PrepRoomOf(t), name, open)
       ELSE PersistAndLeave(t, PrepRoomOf(t), open)

\* a leave(false) promise started by transition t settles
LeaveSettled(t, r) ==
  /\ r \in trans[t].started \ trans[t].settled
  /\ \E ok \in BOOLEAN :
       /\ rooms' = [rooms EXCEPT ![r].isOpen = IF ok THEN FALSE ELSE @]
       /\ trans' = [trans EXCEPT ![t].settled = @ \cup {r},
                                 ![t].log = @ \o <<Ev(IF ok THEN "leave.fulfilled" ELSE "leave.rejected", r)>>]
  /\ UNCHANGED <<localStore, network, pathname, calls, sink, schema>>

\* the resetLobby reducer: the store's tournaments are emptied
ResetLobby(s) == [s EXCEPT !.tournaments = {}]

\* AllSettled resuming as soon as one leave has settled
AllSettledFirst(t) ==
  /\ trans[t].pc = "leaving"
  /\ trans[t].started # {} => trans[t].settled # {}
  /\ trans' = [trans EXCEPT ![t].pc = "navigated",
                            ![t].log = @ \o <<Ev("resetLobby", 0), Ev("navigate:/preparation", 0)>>]
  /\ pathname' = "/preparation"
  /\ UNCHANGED <<localStore, rooms, network, calls, schema>>
  /\ sink' = ResetLobby(sink)

\* AllSettled with Promise.all in place of Promise.allSettled: a rejected
\* leave is thrown into the catch block
AllSettledFailFast(t) ==
  /\ trans[t].pc = "leaving"
  /\ trans[t].started \subseteq trans[t].settled
  /\ trans' = [trans EXCEPT ![t] =
        IF HasEv(@.log, "leave.rejected")
        THEN [@ EXCEPT !.pc = "error", !.log = @ \o <<Ev("logger.error", 0)>>]
        ELSE [@ EXCEPT !.pc = "navigated",
                       !.log = @ \o <<Ev("resetLobby", 0), Ev("navigate:/preparation", 0)>>]]
  /\ pathname' = IF HasEv(trans[t].log, "leave.rejected") THEN pathname ELSE "/preparation"
  /\ UNCHANGED <<localStore, rooms, network, calls, schema>>
  /\ sink' = IF HasEv(trans[t].log, "leave.rejected") THEN sink ELSE ResetLobby(sink)

\* lines 325-330: Promise.allSettled resolved; reset the lobby store and navigate
AllSettled(t) ==
  /\ trans[t].pc = "leaving"
  /\ trans[t].started \subseteq trans[t].settled
  /\ trans' = [trans EXCEPT ![t].pc = "navigated",
                            ![t].log = @ \o <<Ev("resetLobby", 0), Ev("navigate:/preparation", 0)>>]
  /\ pathname' = "/preparation"
  /\ UNCHANGED <<localStore, rooms, network, calls, schema>>
  /\ sink' = ResetLobby(sink)

\* --------------------------------------------- the state projector (113-220)
\* the listeners the tournaments.onAdd handler attaches to a tournament, in source order
TournamentFields == <<"id", "name", "startDate">>
TournamentListeners ==
  TournamentFields \o <<"players.onAdd", "players.onRemove", "brackets.onAdd", "brackets.onRemove">>
PlayerListeners == <<"eliminated">>
BracketFields == <<"name", "finished">>
BracketListeners == BracketFields \o <<"playersId.onChange">>

InSeq(x, seq) == \E i \in 1..Len(seq) : seq[i] = x

\* the LobbyStore reducers, as far as the set of tournaments goes
Reduce(tournaments, u) ==
  IF u.type = "addTournament" THEN tournaments \cup {u.tournamentId}
  ELSE IF u.type = "removeTournament" THEN tournaments \ {u.tournamentId}
  ELSE tournaments

RECURSIVE ReduceAll(_, _)
ReduceAll(tournaments, us) ==
  IF us = <<>> THEN tournaments ELSE ReduceAll(Reduce(tournaments, Head(us)), Tail(us))

\* dispatch(u) for every u of us, in order
Dispatch(s, us) ==
  [tournaments |-> ReduceAll(s.tournaments, us),
   added |-> s.added \cup {us[i].tournamentId : i \in {j \in 1..Len(us) : us[j].type = "addTournament"}},
   last |-> us]

\* the schema instances delivered so far on room r; ids are given in order of delivery
Delivered(r) == DOMAIN schema[r]
Players(r, T) == IF T \in Delivered(r) THEN DOMAIN schema[r][T].players ELSE {}
Brackets(r, T) == IF T \in Delivered(r) THEN DOMAIN schema[r][T].brackets ELSE {}
Instances(r) ==
  Cardinality(Delivered(r))
    + Cardinality({x \in TournamentIds \X PlayerIds : x[2] \in Players(r, x[1])})
    + Cardinality({x \in TournamentIds \X BracketIds : x[2] \in Brackets(r, x[1])})

\* the callbacks of room r are registered and its connection delivers patches
Attached(r) == rooms[r].listeners /\ rooms[r].isOpen

\* listen(field, cb) calls cb at once when the field already has a value
Immediate(immediate, us) == IF immediate THEN us ELSE <<>>

\* TournamentsOnAdd attaching the listeners, the collections first, before it
\* dispatches addTournament
TournamentsOnAddListenersFirst(r, T) ==
  /\ Attached(r)
  /\ T = Len(schema[r]) + 1
  /\ Instances(r) < MaxInstances
  /\ schema' = [schema EXCEPT ![r] = Append(@,
                  [present |-> TRUE,
                   listeners |-> <<"players.onAdd", "players.onRemove", "brackets.onAdd",
                                   "brackets.onRemove">> \o TournamentFields,
                   players |-> <<>>, brackets |-> <<>>])]
  /\ \E immediate \in BOOLEAN :
       sink' = Dispatch(sink, Immediate(immediate, [i \in 1..Len(TournamentFields) |->
                                            Upd("changeTournament", T, 0, TournamentFields[i])])
                 \o <<Upd("addTournament", T, 0, "")>>)
  /\ UNCHANGED <<localStore, rooms, network, pathname, calls, trans>>

\* lines 124-216: a tournament is added to room.state.tournaments
TournamentsOnAdd(r, T) ==
  /\ Attached(r)
  /\ T = Len(schema[r]) + 1
  /\ Instances(r) < MaxInstances
  /\ schema' = [schema EXCEPT ![r] = Append(@,
                  [present |-> TRUE, listeners |-> TournamentListeners,
                   players |-> <<>>, brackets |-> <<>>])]
  /\ \E immediate \in BOOLEAN :
       sink' = Dispatch(sink, <<Upd("addTournament", T, 0, "")>>
                 \o Immediate(immediate, [i \in 1..Len(TournamentFields) |->
                                            Upd("changeTournament", T, 0, TournamentFields[i])]))
  /\ UNCHANGED <<localStore, rooms, network, pathname, calls, trans>>

\* TournamentsOnRemove with an empty handler
TournamentsOnRemoveSilent(r, T) ==
  /\ Attached(r)
  /\ T \in Delivered(r)
  /\ schema[r][T].present
  /\ schema' = [schema EXCEPT ![r][T].present = FALSE]
  /\ sink' = Dispatch(sink, <<>>)
  /\ UNCHANGED <<localStore, rooms, network, pathname, calls, trans>>

\* lines 218-220: a tournament is removed from room.state.tournaments
TournamentsOnRemove(r, T) ==
  /\ Attached(r)
  /\ T \in Delivered(r)
  /\ schema[r][T].present
  /\ schema' = [schema EXCEPT ![r][T].present = FALSE]
  /\ sink' = Dispatch(sink, <<Upd("removeTournament", T, 0, "")>>)
  /\ UNCHANGED <<localStore, rooms, network, pathname, calls, trans>>

\* lines 133-143: a listened field of tournament T changes; the callback stays
\* registered on the instance after the tournament has left the collection
TournamentListen(r, T, field) ==
  /\ Attached(r)
  /\ T \in Delivered(r)
  /\ InSeq(field, TournamentFields)
  /\ InSeq(field, schema[r][T].listeners)
  /\ sink' = Dispatch(sink, <<Upd("changeTournament", T, 0, field)>>)
  /\ UNCHANGED <<localStore, rooms, network, pathname, calls, trans, schema>>

\* lines 145-163: a player is added to tournament.players
PlayersOnAdd(r, T, p) ==
  /\ Attached(r)
  /\ T \in Delivered(r)
  /\ InSeq("players.onAdd", schema[r][T].listeners)
  /\ p = Len(schema[r][T].players) + 1
  /\ Instances(r) < MaxInstances
  /\ schema' = [schema EXCEPT ![r][T].players =
                  Append(@, [present |-> TRUE, listeners |-> PlayerListeners])]
  /\ \E immediate \in BOOLEAN :
       sink' = Dispatch(sink, <<Upd("updateTournament", 0, 0, "")>>
                 \o Immediate(immediate, <<Upd("changeTournamentPlayer", T, p, "eliminated")>>))
  /\ UNCHANGED <<localStore, rooms, network, pathname, calls, trans>>

\* lines 151-162: the eliminated field of a player changes
PlayerListen(r, T, p, field) ==
  /\ Attached(r)
  /\ p \in Players(r, T)
  /\ InSeq(field, schema[r][T].players[p].listeners)
  /\ sink' = Dispatch(sink, <<Upd("changeTournamentPlayer", T, p, field)>>)
  /\ UNCHANGED <<localStore, rooms, network, pathname, calls, trans, schema>>

\* lines 165-167: a player is removed from tournament.players
PlayersOnRemove(r, T, p) ==
  /\ Attached(r)
  /\ p \in Players(r, T)
  /\ InSeq("players.onRemove", schema[r][T].listeners)
  /\ schema[r][T].players[p].present
  /\ schema' = [schema EXCEPT ![r][T].players[p].present = FALSE]
  /\ sink' = Dispatch(sink, <<Upd("updateTournament", 0, 0, "")>>)
  /\ UNCHANGED <<localStore, rooms, network, pathname, calls, trans>>

\* lines 169-206: a bracket is added to tournament.brackets
BracketsOnAdd(r, T, b) ==
  /\ Attached(r)
  /\ T \in Delivered(r)
  /\ InSeq("brackets.onAdd", schema[r][T].listeners)
  /\ b = Len(schema[r][T].brackets) + 1
  /\ Instances(r) < MaxInstances
  /\ schema' = [schema EXCEPT ![r][T].brackets =
                  Append(@, [present |-> TRUE, listeners |-> BracketListeners])]
  /\ \E immediate \in BOOLEAN :
       sink' = Dispatch(sink, <<Upd("addTournamentBracket", T, b, "")>>
                 \o Immediate(immediate, [i \in 1..Len(BracketFields) |->
                                            Upd("changeTournamentBracket", T, b, BracketFields[i])]))
  /\ UNCHANGED <<localStore, rooms, network, pathname, calls, trans>>

\* lines 183-194: the name or finished field of a bracket changes
BracketListen(r, T, b, field) ==
  /\ Attached(r)
  /\ b \in Brackets(r, T)
  /\ InSeq(field, BracketFields)
  /\ InSeq(field, schema[r][T].brackets[b].listeners)
  /\ sink' = Dispatch(sink, <<Upd("changeTournamentBracket", T, b, field)>>)
  /\ UNCHANGED <<localStore, rooms, network, pathname, calls, trans, schema>>

\* lines 196-205: bracket.playersId changes
BracketPlayersIdOnChange(r, T, b) ==
  /\ Attached(r)
  /\ b \in Brackets(r, T)
  /\ InSeq("playersId.onChange", schema[r][T].brackets[b].listeners)
  /\ sink' = Dispatch(sink, <<Upd("changeTournamentBracket", T, b, "playersId")>>)
  /\ UNCHANGED <<localStore, rooms, network, pathname, calls, trans, schema>>

\* lines 208-215: a bracket is removed from tournament.brackets
BracketsOnRemove(r, T, b) ==
  /\ Attached(r)
  /\ b \in Brackets(r, T)
  /\ InSeq("brackets.onRemove", schema[r][T].listeners)
  /\ schema[r][T].brackets[b].present
  /\ schema' = [schema EXCEPT ![r][T].brackets[b].present = FALSE]
  /\ sink' = Dispatch(sink, <<Upd("removeTournamentBracket", T, b, "")>>)
  /\ UNCHANGED <<localStore, rooms, network, pathname, calls, trans>>

\* lines 113-122: the chat messages and the ccu counter of room.state
StateListen(r, type) ==
  /\ Attached(r)
  /\ sink' = Dispatch(sink, <<Upd(type, 0, 0, "")>>)
  /\ UNCHANGED <<localStore, rooms, network, pathname, calls, trans, schema>>

\* --------------------------------------------- the message router (222-274)
\* a message of the lobby room: its Transfer tag and, for ROOMS and ADD_ROOM,
\* the names of the rooms it carries
Msg(tag, names) == [tag |-> tag, names |-> names]
Messages ==
  { Msg("BANNED", <<>>),
    Msg("ROOMS", <<>>), Msg("ROOMS", <<"preparation", "game">>),
    Msg("ADD_ROOM", <<"preparation">>), Msg("ADD_ROOM", <<"game">>), Msg("ADD_ROOM", <<"lobby">>),
    Msg("REMOVE_ROOM", <<>>), Msg("USER_PROFILE", <<>>), Msg("RECONNECT_PROMPT", <<>>),
    Msg("USER", <<>>), Msg("BOOSTER_CONTENT", <<>>), Msg("SUGGESTIONS", <<>>) }

\* what the handler of msg dispatches (BANNED only calls window.alert)
MessageUpdates(msg) ==
  CASE msg.tag = "BANNED" -> <<>>
    [] msg.tag = "ROOMS" -> [i \in 1..Len(msg.names) |-> Upd("addRoom", 0, 0, msg.names[i])]
    [] msg.tag = "ADD_ROOM" ->
         IF msg.names[1] = "preparation" \/ msg.names[1] = "game"
         THEN <<Upd("addRoom", 0, 0, msg.names[1])>> ELSE <<>>
    [] msg.tag = "REMOVE_ROOM" -> <<Upd("removeRoom", 0, 0, "")>>
    [] msg.tag = "USER_PROFILE" -> <<Upd("setProfile", 0, 0, "")>>
    [] msg.tag = "RECONNECT_PROMPT" -> <<Upd("setPendingGameId", 0, 0, "")>>
    [] msg.tag = "USER" -> <<Upd("setSearchedUser", 0, 0, "")>>
    [] msg.tag = "BOOSTER_CONTENT" -> <<Upd("setBoosterContent", 0, 0, "")>>
    [] msg.tag = "SUGGESTIONS" -> <<Upd("setSuggestions", 0, 0, "")>>

\* lines 222-228, 240-274: a message other than REQUEST_ROOM arrives on lobby
\* room r and its handler runs to completion
OnMessage(r, msg) ==
  /\ Attached(r)
  /\ sink' = Dispatch(sink, MessageUpdates(msg))
  /\ UNCHANGED <<localStore, rooms, network, pathname, calls, trans, schema>>

\* ------------------------------------------------------- specifications
ConnectStep(c) ==
  \/ joinLobbyRoom(c)
  \/ AuthResolved(c)
  \/ AuthRejected(c)
  \/ ReconnectResolved(c)
  \/ ReconnectRejected(c)
  \/ IdTokenResolved(c)
  \/ IdTokenRejected(c)
  \/ JoinResolved(c)
  \/ JoinRejected(c)

TransitionStep(t) ==
  \/ \E r \in RoomIds : OnRequestRoom(r, t)
  \/ CallJoinExistingPreparationRoom(t)
  \/ TokenResolved(t)
  \/ TokenRejected(t)
  \/ JoinByIdResolved(t)
  \/ JoinByIdRejected(t)
  \/ \E r \in RoomIds : LeaveSettled(t, r)
  \/ AllSettled(t)

\* a patch of room.state arrives on lobby room r
ProjectorStep(r) ==
  \/ \E type \in {"pushMessage", "removeMessage", "setCcu"} : StateListen(r, type)
  \/ \E T \in TournamentIds :
       \/ TournamentsOnAdd(r, T)
       \/ TournamentsOnRemove(r, T)
       \/ \E field \in {"id", "name", "startDate"} : TournamentListen(r, T, field)
       \/ \E p \in PlayerIds :
            \/ PlayersOnAdd(r, T, p)
            \/ PlayerListen(r, T, p, "eliminated")
            \/ PlayersOnRemove(r, T, p)
       \/ \E b \in BracketIds :
            \/ BracketsOnAdd(r, T, b)
            \/ \E field \in {"name", "finished"} : BracketListen(r, T, b, field)
            \/ BracketPlayersIdOnChange(r, T, b)
            \/ BracketsOnRemove(r, T, b)

\* the whole program
Next ==
  \/ Tick
  \/ \E r \in RoomIds : ServerClose(r)
  \/ \E c \in CallIds : ConnectStep(c)
  \/ \E t \in TransIds : TransitionStep(t)
  \/ \E r \in RoomIds : ProjectorStep(r)
  \/ \E r \in RoomIds, msg \in Messages : OnMessage(r, msg)

Spec == Init /\ [][Next]_vars

\* the lobby session: any number of connect() calls, no hand-off
NextConnect ==
  \/ Tick
  \/ \E r \in RoomIds : ServerClose(r)
  \/ \E c \in CallIds : ConnectStep(c)

SpecConnect == Init /\ [][NextConnect]_vars

\* the hand-off: one connect() call, any number of transitions
NextTransition ==
  \/ Tick
  \/ \E r \in RoomIds : ServerClose(r)
  \/ ConnectStep(1)
  \/ \E t \in 1..MaxHandoffs : TransitionStep(t)

SpecTransition == Init /\ [][NextTransition]_vars

\* the state projector: one lobby connection and the patches it delivers
NextProjector ==
  \/ ConnectStep(1)
  \/ ProjectorStep(LobbyRoomOf(1))

SpecProjector == Init /\ [][NextProjector]_vars

\* no credential is stored when the page loads
InitFresh == Init /\ localStore[RECONNECTION_LOBBY] = NoCred

\* the steps of a connect() that finds no credential
FreshConnectStep(c) ==
  \/ joinLobbyRoom(c)
  \/ AuthResolved(c)
  \/ AuthRejected(c)
  \/ IdTokenResolved(c)
  \/ IdTokenRejected(c)
  \/ JoinResolved(c)
  \/ JoinRejected(c)

\* the steps of a transition that a REQUEST_ROOM message started
RequestRoomStep(t) ==
  \/ \E r \in RoomIds : OnRequestRoom(r, t)
  \/ TokenResolved(t)
  \/ TokenRejected(t)
  \/ JoinByIdResolved(t)
  \/ JoinByIdRejected(t)
  \/ \E r \in RoomIds : LeaveSettled(t, r)
  \/ AllSettled(t)

\* the message router: one lobby connection, the messages it delivers and the
\* transitions they start
NextRouter ==
  \/ FreshConnectStep(1)
  \/ \E msg \in Messages : OnMessage(LobbyRoomOf(1), msg)
  \/ \E t \in TransIds : RequestRoomStep(t)

SpecRouter == InitFresh /\ [][NextRouter]_vars

\* ------------------------------------------------------------ the claims

\* C1: when a second connect() is called while an earlier one is still pending,
\* the two calls together make one join attempt on the transport (reconnect or
\* fresh join), not one each.
Attempted(c) == HasEv(calls[c].log, "client.reconnect") \/ HasEv(calls[c].log, "client.join")
C1_OneJoinAttempt ==
  \A c, d \in CallIds : c \in calls[d].overlapped => ~(Attempted(c) /\ Attempted(d))

\* C4: when authenticateUser fails during connect(), the returned promise is
\* rejected, the top-level error handler has run and navigation away from the
\* lobby was triggered.
C4_AuthFailureRejects ==
  \A c \in CallIds :
    HasEv(calls[c].log, "authenticateUser.rejected") =>
      /\ calls[c].promise = "rejected"
      /\ HasEv(calls[c].log, "navigate:/")

\* the calls a step added to the list of call c
Added(c) == SubSeq(calls'[c].log, Len(calls[c].log) + 1, Len(calls'[c].log))

\* C5: connect() presents a stored lobby credential to the transport only when
\* the store holds it unexpired: with an expired or absent credential no
\* reconnect is made and the fresh join path is taken; with an unexpired one
\* reconnect is called once with exactly that token, and when it succeeds no
\* fresh join is made.
C5Step(c) ==
  /\ (calls[c].pc = "authenticating" /\ calls'[c].pc \notin {"authenticating", "done"}) =>
       LET cred == localStore[RECONNECTION_LOBBY] IN
       IF cred # NoCred /\ cred.ttl >= 0
       THEN /\ calls'[c].pc = "reconnecting"
            /\ HasEvOn(Added(c), "client.reconnect", cred.reconnectionToken)
            /\ Count(Added(c), "client.reconnect") = 1
            /\ ~HasEv(Added(c), "client.join")
       ELSE /\ calls'[c].pc = "gettingIdToken"
            /\ ~HasEv(Added(c), "client.reconnect")
  /\ (calls[c].pc # "authenticating") => ~HasEv(Added(c), "client.reconnect")
  /\ (calls[c].pc = "reconnecting" /\ calls'[c].pc = "done") =>
       /\ ~HasEv(calls'[c].log, "client.join")
       /\ ~HasEv(calls'[c].log, "user.getIdToken")
  /\ (calls[c].pc = "gettingIdToken" /\ calls'[c].pc = "joining") =>
       /\ Count(calls'[c].log, "client.join") = 1
       /\ HasEv(calls'[c].log, "client.reconnect") => HasEv(calls'[c].log, "client.reconnect.rejected")

C5_ReconnectOnlyUnexpired == [][\A c \in CallIds : calls'[c] # calls[c] => C5Step(c)]_vars

C5_Witness ==
  \E c \in CallIds :
    /\ HasEvOn(calls[c].log, "client.reconnect", OldToken)
    /\ calls[c].promise = "resolved"
    /\ ~HasEv(calls[c].log, "client.join")

\* C6: when the reconnect of a connect() fails, the lobby credential is deleted,
\* the token is not presented again by that call, the fresh join path follows,
\* and the reconnect error is not surfaced: no promise rejection, no error
\* alert and no navigation, also when the fresh join then succeeds.
C6Step(c) ==
  /\ (calls[c].pc = "reconnecting" /\ calls'[c].pc # "reconnecting" /\ calls'[c].pc # "done") =>
       /\ calls'[c].pc = "gettingIdToken"
       /\ localStore'[RECONNECTION_LOBBY] = NoCred
       /\ network' = network
       /\ pathname' = pathname
       /\ calls'[c].promise = "pending"
       /\ Added(c) = <<Ev("client.reconnect.rejected", calls[c].reconnectToken),
                       Ev("localStore.delete:lobby", 0), Ev("user.getIdToken", 0)>>
  /\ LET log == calls'[c].log IN
     HasEv(log, "client.reconnect.rejected") =>
       /\ Count(log, "client.reconnect") = 1
       /\ calls'[c].pc = "joining" => HasEv(log, "client.join")
       /\ calls'[c].promise = "resolved" =>
            /\ HasEv(log, "client.join")
            /\ ~HasEv(log, "reject")
            /\ ~HasEv(log, "setErrorAlertMessage")
            /\ ~HasEv(log, "navigate:/")

C6_ReconnectFailureRecovered == [][\A c \in CallIds : calls'[c] # calls[c] => C6Step(c)]_vars

C6_Witness ==
  \E c \in CallIds :
    /\ HasEv(calls[c].log, "client.reconnect.rejected")
    /\ calls[c].promise = "resolved"

\* C7: whenever network.lobby is a connection that connect() established, the
\* connection status has been set to CONNECTED, the connection's credential has
\* been persisted with a TTL of 5 minutes and every listener and message
\* handler has been attached, all before joinLobby published the handle.
C7_PublishedHandleInitialized ==
  \A c \in CallIds :
    network.lobby = LobbyRoomOf(c) =>
      LET r == LobbyRoomOf(c)
          log == calls[c].log
      IN  /\ rooms[r].listeners
          /\ network.connectionStatus = "CONNECTED"
          /\ Count(log, "joinLobby") = 1
          /\ HasEvOn(log, "joinLobby", r)
          /\ AllBefore(log, "setConnectionStatus:CONNECTED", "joinLobby")
          /\ AllBefore(log, "localStore.set:lobby", "joinLobby")
          /\ \A i \in Pos(log, "localStore.set:lobby") :
               log[i] = EvSet("localStore.set:lobby", TokenOf(r), LobbyTTL)
          /\ AllBefore(log, "room.onLeave", "joinLobby")
          /\ AllBefore(log, "stateListeners", "joinLobby")
          /\ AllBefore(log, "room.onMessage", "joinLobby")

C7_Witness == network.lobby # NoRoom /\ rooms[network.lobby].isOpen

\* C2: in a transition started by REQUEST_ROOM on a lobby connection that
\* connect() established, when that connection is open at the leave step, a
\* leave of it is started after the preparation credential is persisted.
C2_LobbyLeaveAttempted ==
  \A t \in TransIds :
    (trans[t].via # NoRoom /\ trans[t].pc = "leaving" /\ rooms[trans[t].via].isOpen) =>
      /\ HasEvOn(trans[t].log, "leave", trans[t].via)
      /\ AllBefore(trans[t].log, "localStore.set:preparation", "leave")

\* C3 as stated: the coordinator never leaves the preparation room it joined,
\* which is therefore still open when the transition reaches NAVIGATED.
C3_PrepRoomStaysOpen ==
  \A t \in TransIds :
    trans[t].pc = "navigated" =>
      /\ ~HasEvOn(trans[t].log, "leave", trans[t].room)
      /\ trans[t].roomOpen => rooms[trans[t].room].isOpen

\* C3 amended: the leave step starts a leave of the lobby handle it was given
\* (if open) and of the preparation room it joined (if open), and of nothing
\* else; at NAVIGATED the leave of the preparation room has settled, and the
\* room is closed when that leave succeeded.
C3_BothReleased ==
  \A t \in TransIds :
    trans[t].pc \in {"leaving", "navigated"} =>
      /\ trans[t].roomOpen => HasEvOn(trans[t].log, "leave", trans[t].room)
      /\ trans[t].roomOpen <=> trans[t].room \in trans[t].started
      /\ trans[t].started \subseteq {trans[t].lobby, trans[t].room}
      /\ trans[t].pc = "navigated" =>
           /\ trans[t].started \subseteq trans[t].settled
           /\ HasEvOn(trans[t].log, "leave.fulfilled", trans[t].room)
                => ~rooms[trans[t].room].isOpen

C3_Witness ==
  \E t \in TransIds :
    /\ trans[t].pc = "navigated"
    /\ trans[t].roomOpen
    /\ HasEvOn(trans[t].log, "leave.fulfilled", trans[t].room)
    /\ ~rooms[trans[t].room].isOpen

\* the calls a step added to the list of transition t
AddedT(t) == SubSeq(trans'[t].log, Len(trans[t].log) + 1, Len(trans'[t].log))

\* C8: when the joined room is not a preparation room, it is left if its
\* connection is open, an error without a close code is thrown and logged,
\* and the transition persists no preparation credential, starts no lobby
\* leave, issues no reset-lobby and does not navigate.
C8Step(t) ==
  /\ HasEv(AddedT(t), "joined:game") =>
       /\ localStore' = localStore
       /\ pathname' = pathname
       /\ network' = network
       /\ rooms'[trans'[t].room].name = "game"
       /\ HasEvOn(AddedT(t), "leave", trans'[t].room) <=> rooms'[trans'[t].room].isOpen
  /\ LET log == trans'[t].log IN
     HasEv(log, "joined:game") =>
       /\ trans'[t].pc = "error"
       /\ AllBefore(log, "throw", "logger.error")
       /\ HasEv(log, "logger.error")
       /\ ~HasEv(log, "setErrorAlertMessage")
       /\ ~HasEv(log, "localStore.set:preparation")
       /\ \A i \in 1..Len(log) : log[i].ev = "leave" => log[i].arg = trans'[t].room
       /\ ~HasEv(log, "resetLobby")
       /\ ~HasEv(log, "navigate:/preparation")

C8_WrongRoomAborts == [][\A t \in TransIds : trans'[t] # trans[t] => C8Step(t)]_vars

C8_Witness ==
  \E t \in TransIds :
    /\ HasEv(trans[t].log, "joined:game")
    /\ HasEvOn(trans[t].log, "leave", trans[t].room)
    /\ trans[t].lobby # NoRoom /\ rooms[trans[t].lobby].isOpen

\* C9: in a transition that navigated, the room was joined as a preparation
\* room, then its credential (token and roomId, TTL 30 seconds) was persisted,
\* then the leaves were started and every one of them settled, then
\* reset-lobby was issued, then navigation to /preparation; the credential is
\* persisted before any leave is started.
C9Step(t) ==
  /\ (trans[t].pc = "joining" /\ trans'[t].pc = "leaving") =>
       /\ localStore'[RECONNECTION_PREPARATION] =
            [reconnectionToken |-> TokenOf(trans'[t].room), roomId |-> trans[t].roomId,
             ttl |-> PrepTTL]
       /\ rooms'[trans'[t].room].name = "preparation"
  /\ LET log == trans'[t].log IN
     /\ trans'[t].pc \in {"leaving", "navigated"} =>
          /\ Count(log, "localStore.set:preparation") = 1
          /\ \A i \in Pos(log, "localStore.set:preparation") :
               log[i] = EvSet("localStore.set:preparation", TokenOf(trans'[t].room), PrepTTL)
          /\ AllBefore(log, "joined:preparation", "localStore.set:preparation")
          /\ AllBefore(log, "localStore.set:preparation", "leave")
     /\ trans'[t].pc = "navigated" =>
          /\ \A r \in trans'[t].started :
               HasEvOn(log, "leave", r)
                 /\ (HasEvOn(log, "leave.fulfilled", r) \/ HasEvOn(log, "leave.rejected", r))
          /\ AllBefore(log, "localStore.set:preparation", "resetLobby")
          /\ \A e \in {"leave", "leave.fulfilled", "leave.rejected"} :
               \A i \in Pos(log, e), j \in Pos(log, "resetLobby") : i < j
          /\ AllBefore(log, "resetLobby", "navigate:/preparation")
          /\ Count(log, "resetLobby") = 1
          /\ Count(log, "navigate:/preparation") = 1
     /\ HasEv(log, "resetLobby") => trans'[t].pc = "navigated"

C9_TransitionOrder == [][\A t \in TransIds : trans'[t] # trans[t] => C9Step(t)]_vars

C9_Witness ==
  \E t \in TransIds :
    /\ trans[t].pc = "navigated"
    /\ trans[t].started # {}
    /\ pathname = "/preparation"

\* C10: in a transition that started two leaves, whatever the two outcomes,
\* the transition resumes only when both have settled, then issues
\* reset-lobby and navigates; it never takes its error path.
C10_LeaveFailureTolerated ==
  \A t \in TransIds :
    Cardinality(trans[t].started) = 2 =>
      LET log == trans[t].log IN
      /\ trans[t].pc \in {"leaving", "navigated"}
      /\ ~HasEv(log, "logger.error")
      /\ ~HasEv(log, "setErrorAlertMessage")
      /\ trans[t].pc = "leaving" =>
           IF trans[t].started \subseteq trans[t].settled
           THEN ENABLED AllSettled(t)
           ELSE /\ ~ENABLED AllSettled(t)
                /\ \A r \in trans[t].started \ trans[t].settled : ENABLED LeaveSettled(t, r)
      /\ trans[t].pc = "navigated" =>
           /\ trans[t].started \subseteq trans[t].settled
           /\ AllBefore(log, "resetLobby", "navigate:/preparation")
           /\ \A e \in {"leave.fulfilled", "leave.rejected"} :
                \A i \in Pos(log, e), j \in Pos(log, "resetLobby") : i < j

C10_Witness ==
  \E t \in TransIds :
    /\ trans[t].pc = "navigated"
    /\ Cardinality(trans[t].started) = 2
    /\ HasEv(trans[t].log, "leave.rejected")
    /\ HasEv(trans[t].log, "leave.fulfilled")

\* C11: when the fresh join (the id token or client.join) or the listener setup
\* of a connect() fails, reject is called once and the top-level catch runs
\* once: it sets the error alert exactly when the error has a message and
\* navigates to "/"; the call never publishes its room as network.lobby; and
\* the step in which the fresh join fails leaves the credential store as it was.
C11Failed(c) ==
  \/ HasEv(Added(c), "user.getIdToken.rejected")
  \/ HasEv(Added(c), "client.join.rejected")
  \/ HasEv(Added(c), "setConnectionStatus:CONNECTED") /\ HasEv(Added(c), "reject")

C11Step(c) ==
  /\ C11Failed(c) =>
       LET log == calls'[c].log IN
       /\ calls'[c].pc = "done"
       /\ calls'[c].promise = "rejected"
       /\ Count(log, "reject") = 1
       /\ Count(log, "navigate:/") = 1
       /\ Count(log, "setErrorAlertMessage") <= 1
       /\ AllBefore(log, "reject", "navigate:/")
       /\ \A i \in Pos(log, "reject"), j \in Pos(log, "setErrorAlertMessage") : i < j
       /\ pathname' = "/"
       /\ IF HasEv(log, "setErrorAlertMessage")
          THEN network'.errorAlertMessage = "err.message"
          ELSE network'.errorAlertMessage = network.errorAlertMessage
       /\ ~HasEv(log, "joinLobby")
       /\ ~HasEv(log, "resolve")
       /\ network'.lobby = network.lobby
       /\ network'.lobby # LobbyRoomOf(c)
  /\ \A err \in Errors :
       (calls[c].pc = "joining" /\ Reject(c, "client.join.rejected", err)) =>
         (err.message <=> HasEv(Added(c), "setErrorAlertMessage"))
  /\ (HasEv(Added(c), "user.getIdToken.rejected") \/ HasEv(Added(c), "client.join.rejected")) =>
       /\ localStore' = localStore
       /\ ~HasEv(Added(c), "localStore.set:lobby")
       /\ ~HasEv(Added(c), "localStore.delete:lobby")

C11_ConnectFailureSurfacedOnce ==
  [][\A c \in CallIds :
       (calls[c].pc \in {"reconnecting", "gettingIdToken", "joining"} /\ calls'[c].pc = "done")
         => C11Step(c)]_vars

C11_Witness ==
  \E c, d \in CallIds :
    /\ HasEv(calls[c].log, "client.join.rejected")
    /\ HasEv(calls[c].log, "setErrorAlertMessage")
    /\ localStore[RECONNECTION_LOBBY] # NoCred
    /\ calls[d].promise = "rejected"
    /\ HasEv(calls[d].log, "setConnectionStatus:CONNECTED")

\* C12: a connect() called while network.lobby has an open connection resolves
\* with that handle in the same step and does nothing else: its only call is
\* resolve(lobby), the credential store, the rooms (their listeners), the
\* network store and the location are unchanged, and the call takes no later step.
C12Step(c) ==
  /\ (calls[c].pc = "idle" /\ network.lobby # NoRoom /\ rooms[network.lobby].isOpen) =>
       /\ calls'[c].pc = "done"
       /\ calls'[c].promise = "resolved"
       /\ calls'[c].room = network.lobby
       /\ calls'[c].log = <<Ev("resolve", network.lobby)>>
       /\ localStore' = localStore
       /\ rooms' = rooms
       /\ network' = network
       /\ pathname' = pathname
       /\ trans' = trans
  /\ calls[c].pc # "done"

C12_OpenHandleReturned == [][\A c \in CallIds : calls'[c] # calls[c] => C12Step(c)]_vars

C12_Witness ==
  \E c \in CallIds :
    /\ calls[c].promise = "resolved"
    /\ network.lobby # NoRoom
    /\ calls[c].log = <<Ev("resolve", network.lobby)>>

\* C15: when a transition fails (the id token, joinById or the room-kind check
\* throws), it does not navigate and the location stays as it was; the error
\* alert is set exactly when the error has a code that is in
\* CloseCodesMessages, and otherwise the error is logged and the network store
\* is unchanged.
C15Step(t) ==
  /\ (trans[t].pc # "error" /\ trans'[t].pc = "error") =>
       /\ pathname' = pathname
       /\ \A i \in 1..Len(trans'[t].log) :
            trans'[t].log[i].ev \notin {"navigate:/", "navigate:/preparation", "resetLobby"}
       /\ Count(AddedT(t), "setErrorAlertMessage") + Count(AddedT(t), "logger.error") = 1
       /\ HasEv(AddedT(t), "logger.error") => network' = network
       /\ HasEv(AddedT(t), "throw") => HasEv(AddedT(t), "logger.error")
  /\ \A err \in Errors, what \in {"getIdToken.rejected", "client.joinById.rejected"} :
       (trans[t].pc \in {"authenticating", "joining"} /\ Catch(t, what, err)) =>
         /\ HasEv(AddedT(t), "setErrorAlertMessage") <=> err.code \in CloseCodesMessages
         /\ err.code \in CloseCodesMessages =>
              network' = [network EXCEPT !.errorAlertMessage = "errors." \o err.code]
         /\ err.code \notin CloseCodesMessages => HasEv(AddedT(t), "logger.error")
  /\ trans[t].pc = "error" =>
       /\ trans'[t].pc = "error"
       /\ pathname' = pathname
       /\ network' = network

C15_TransitionFailureStaysInPlace ==
  [][\A t \in TransIds : trans'[t] # trans[t] => C15Step(t)]_vars

C15_Witness ==
  \E t \in TransIds :
    /\ trans[t].pc = "error"
    /\ HasEv(trans[t].log, "client.joinById.rejected")
    /\ HasEv(trans[t].log, "setErrorAlertMessage")
    /\ network.errorAlertMessage = "errors.USER_BANNED"
    /\ pathname = "/lobby"

\* C16: when a lobby connection that connect() initialized is closed with a
\* code, navigate("/") is called exactly when the code is USER_INACTIVE,
\* USER_BANNED, USER_DELETED or USER_NOT_AUTHENTICATED and the location is
\* /lobby (the alert is then the message of that code); with any other code,
\* or on any other location, the location and the network store are unchanged.
C16_ForcedLogoutOnlyOnLobby ==
  [][\A r \in RoomIds, code \in CloseCodes :
       (rooms[r].listeners /\ rooms[r].isOpen /\ ~rooms'[r].isOpen /\ ServerCloseWith(r, code)) =>
         IF code \in {"USER_INACTIVE", "USER_BANNED", "USER_DELETED", "USER_NOT_AUTHENTICATED"}
            /\ pathname = "/lobby"
         THEN /\ pathname' = "/"
              /\ network' = [network EXCEPT !.errorAlertMessage = "errors." \o code]
         ELSE /\ pathname' = pathname
              /\ network' = network]_vars

C16_Witness ==
  \E r, q \in RoomIds :
    /\ rooms[r].listeners /\ ~rooms[r].isOpen
    /\ network.errorAlertMessage = "errors.USER_INACTIVE"
    /\ rooms[q].listeners /\ ~rooms[q].isOpen
    /\ q # r

\* C17: a transition that gets no id token ends there: its only call is
\* getIdToken (no resetPreparation or resetLobby, no joinById, no localStore.set,
\* no leave, no alert, no navigate), the step changes nothing but the
\* transition's position, and the transition takes no later step.
C17Step(t) ==
  /\ (trans[t].pc = "authenticating" /\ trans'[t].pc = "done") =>
       /\ trans'[t] = [trans[t] EXCEPT !.pc = "done"]
       /\ trans'[t].log = <<Ev("getIdToken", 0)>>
       /\ trans'[t].room = NoRoom
       /\ trans'[t].started = {}
       /\ localStore' = localStore
       /\ rooms' = rooms
       /\ network' = network
       /\ pathname' = pathname
       /\ calls' = calls
  /\ trans[t].pc # "done"
  /\ trans'[t].pc = "done" => trans[t].pc = "authenticating"

C17_NoTokenNoOp == [][\A t \in TransIds : trans'[t] # trans[t] => C17Step(t)]_vars

C17_Witness ==
  \E t \in TransIds :
    /\ trans[t].pc = "done"
    /\ trans[t].via # NoRoom
    /\ rooms[trans[t].via].isOpen
    /\ localStore[RECONNECTION_PREPARATION] = NoCred

\* C20: a transition that got its id token dispatches resetPreparation once, in
\* the step that issues joinById and before it, and never again, so a
\* transition that then fails (joinById rejected, or a room of the wrong kind)
\* has reset the preparation state; resetLobby is dispatched only by a
\* transition that joined a preparation room, threw nothing, and of which
\* every started leave has settled.
C20Step(t) ==
  LET log == trans'[t].log IN
  /\ (trans[t].pc = "authenticating" /\ trans'[t].pc = "joining") =>
       AddedT(t) = <<Ev("resetPreparation", 0), Ev("client.joinById", 0)>>
  /\ trans[t].pc # "authenticating" => ~HasEv(AddedT(t), "resetPreparation")
  /\ trans'[t].pc \in {"joining", "leaving", "navigated"} => Count(log, "resetPreparation") = 1
  /\ (trans[t].pc = "joining" /\ trans'[t].pc # "joining") =>
       /\ Count(log, "resetPreparation") = 1
       /\ Count(log, "client.joinById") = 1
       /\ AllBefore(log, "resetPreparation", "client.joinById")
       /\ trans'[t].pc \in {"error", "leaving"}
  /\ trans'[t].pc = "error" =>
       (Count(log, "resetPreparation") = 1 <=> ~HasEv(log, "getIdToken.rejected"))
  /\ HasEv(AddedT(t), "resetLobby") =>
       /\ HasEv(log, "joined:preparation")
       /\ ~HasEv(log, "joined:game")
       /\ ~HasEv(log, "throw")
       /\ ~HasEv(log, "logger.error")
       /\ trans[t].started \subseteq trans[t].settled
       /\ \A r \in trans[t].started :
            \E i \in 1..Len(trans[t].log) :
              /\ trans[t].log[i].ev \in {"leave.fulfilled", "leave.rejected"}
              /\ trans[t].log[i].arg = r
       /\ Count(log, "resetLobby") = 1

C20_ResetPreparationFirst == [][\A t \in TransIds : trans'[t] # trans[t] => C20Step(t)]_vars

C20_Witness ==
  \E t \in TransIds :
    /\ trans[t].pc = "error"
    /\ HasEv(trans[t].log, "joined:game")
    /\ Count(trans[t].log, "resetPreparation") = 1
    /\ ~HasEv(trans[t].log, "resetLobby")

\* C13: once tournament T has been removed, no update that names T is
\* dispatched any more (no field change, no player or bracket update), and T
\* does not come back into the store's tournaments.
C13_NoWriteAfterRemoval ==
  [][\A r \in RoomIds, T \in TournamentIds :
       (T \in Delivered(r) /\ ~schema[r][T].present /\ sink' # sink) =>
         /\ \A i \in 1..Len(sink'.last) : sink'.last[i].tournamentId # T
         /\ T \notin sink'.tournaments]_vars

\* C14: the tournaments LobbyStore holds are exactly those that were added to
\* room.state.tournaments of the published lobby connection and not removed
\* since, whatever field, player and bracket events came in between.
C14_MirrorMatchesEvents ==
  /\ network.lobby = NoRoom => sink.tournaments = {}
  /\ network.lobby # NoRoom =>
       sink.tournaments = {T \in Delivered(network.lobby) : schema[network.lobby][T].present}

C14_Witness ==
  /\ network.lobby # NoRoom
  /\ sink.tournaments = {2}
  /\ sink.added = {1, 2}
  /\ \E field \in {"id", "name", "startDate"} : sink.last = <<Upd("changeTournament", 1, 0, field)>>

\* C18: an update that names tournament T (a field change, a bracket added,
\* changed or removed, a player change, the removal of T) is dispatched only
\* after addTournament was dispatched for T, in an earlier handler or earlier
\* in the same one; the onAdd handler attaches the listeners of the fields id,
\* name and startDate before the players and brackets listeners; and a
\* tournament has listeners only once it has been added to the store.
C18Step ==
  \A i \in 1..Len(sink'.last) :
    LET u == sink'.last[i] IN
    (u.tournamentId # 0 /\ u.type # "addTournament") =>
      \/ u.tournamentId \in sink.added
      \/ \E j \in 1..(i - 1) : sink'.last[j] = Upd("addTournament", u.tournamentId, 0, "")

C18Listeners(r, T) ==
  T \in DOMAIN schema'[r] =>
    LET ls == schema'[r][T].listeners IN
    /\ T \in sink'.added
    /\ \A i, j \in 1..Len(ls) :
         (ls[i] \in {"id", "name", "startDate"}
            /\ ls[j] \in {"players.onAdd", "players.onRemove", "brackets.onAdd", "brackets.onRemove"})
           => i < j
    /\ \A l \in {"id", "name", "startDate", "players.onAdd", "players.onRemove",
                 "brackets.onAdd", "brackets.onRemove"} : InSeq(l, ls)

C18_ParentBeforeChildren ==
  [][(sink' # sink \/ schema' # schema) =>
       /\ C18Step
       /\ \A r \in RoomIds :
            schema'[r] # schema[r] => \A T \in TournamentIds : C18Listeners(r, T)]_vars

C18_Witness ==
  \E T \in TournamentIds, b \in BracketIds :
    /\ T \in sink.tournaments
    /\ sink.last = << Upd("addTournamentBracket", T, b, ""),
                      Upd("changeTournamentBracket", T, b, "name"),
                      Upd("changeTournamentBracket", T, b, "finished") >>

\* C19: while a transition started by REQUEST_ROOM on lobby room r is in
\* flight (token, join or leave outstanding), every other message of r can be
\* handled at once: its handler runs, its updates are dispatched in that step
\* and the transitions in flight stay where they are; and a further
\* REQUEST_ROOM starts a further transition at once, the earlier ones still
\* in flight.
InFlight(t) ==
  \/ trans[t].pc \in {"authenticating", "joining", "leaving"}
  \/ ~(trans[t].started \subseteq trans[t].settled)

C19_RouterDoesNotWait ==
  \A r \in RoomIds :
    (Attached(r) /\ \E t \in TransIds : trans[t].via = r /\ InFlight(t)) =>
      /\ \A msg \in Messages :
           ENABLED (OnMessage(r, msg) /\ sink'.last = MessageUpdates(msg) /\ trans' = trans)
      /\ \A t \in TransIds :
           (trans[t].pc = "idle" /\ \A u \in TransIds : u < t => trans[u].pc # "idle") =>
             ENABLED (/\ OnRequestRoom(r, t)
                      /\ trans'[t].pc = "authenticating"
                      /\ \A u \in TransIds \ {t} : trans'[u] = trans[u])

C19_Witness ==
  \E r \in RoomIds :
    /\ Attached(r)
    /\ trans[1].via = r /\ trans[1].pc = "leaving" /\ ~(trans[1].started \subseteq trans[1].settled)
    /\ trans[2].via = r /\ trans[2].pc = "joining"
    /\ sink.last = <<Upd("removeRoom", 0, 0, "")>>

====
